---- MODULE Spec2Model ----
(***************************************************************************)
(* Model of the Risk.fun hash verifier (crypto.js, script.js).             *)
(*                                                                         *)
(* Strings are sequences of one-character strings.  The two external       *)
(* digest libraries (js-sha3 keccak256, CryptoJS.HmacSHA256) are modelled  *)
(* as fixed functions of their arguments whose values are drawn from small *)
(* tables; `salt` selects the member of the family, so that every table    *)
(* entry occurs at every round for some behaviour.                         *)
(***************************************************************************)
EXTENDS Integers, Sequences, FiniteSets, TLC

VARIABLES
    binding,          \* which of the two declarations of generateDeterministicRandom /
                      \* generateDeathTiles in crypto.js the names are bound to
    salt,             \* member of the digest family the libraries compute
    cryptoJsLoaded,   \* typeof CryptoJS !== 'undefined'
    keccakLoaded,     \* one of window.keccak256 / sha3.keccak_256 / sha3.keccak256 is a function
    isDebugMode,      \* script.js global
    now,              \* wall clock read by new Date()
    call,             \* the most recent direct call of a core function and what it returned;
                      \* on the page, the last submission and the functions it has invoked
    pinned,           \* an earlier call, kept for comparison with later ones
    fields,           \* the three form inputs (raw strings)
    formData,         \* result of getFormData for the submission in progress
    validation,       \* result of validateGameData for the submission in progress
    verificationResult, \* script.js global: last displayed result
    ui,               \* what the page shows: status, button state, error, board, copy button
    pc                \* position of handleFormSubmit

vars == <<binding, salt, cryptoJsLoaded, keccakLoaded, isDebugMode, now, call, pinned,
          fields, formData, validation, verificationResult, ui, pc>>

(***************************************************************************)
(* Bounds of the model                                                     *)
(***************************************************************************)
MaxSeedLen == 3
MaxHashLen == 2
MaxRounds == 2
MaxClock == 1
MaxConfigLen == 4
MaxBytes == 2
MaxSegments == 3

(***************************************************************************)
(* Characters and strings                                                  *)
(***************************************************************************)
LowerLetters == <<"a","b","c","d","e","f","g","h","i","j","k","l","m",
                  "n","o","p","q","r","s","t","u","v","w","x","y","z">>
UpperLetters == <<"A","B","C","D","E","F","G","H","I","J","K","L","M",
                  "N","O","P","Q","R","S","T","U","V","W","X","Y","Z">>
Digits == <<"0","1","2","3","4","5","6","7","8","9">>
HexDigitsLower == <<"0","1","2","3","4","5","6","7","8","9","a","b","c","d","e","f">>

Range(s) == {s[i] : i \in DOMAIN s}

\* F applied to value, the value computed once (a const binding of the source)
Once(value, F(_)) == CHOOSE result \in {F(x) : x \in {value}} : TRUE

\* characters the inputs of the model are built from: a digit, a lower-case hex letter,
\* an upper-case hex letter, a separator (not hexadecimal) and a blank
Alphabet == {"0", "a", "F", ":", " "}

RECURSIVE StringsOfLen(_, _)
StringsOfLen(alphabet, n) ==
    IF n = 0 THEN {<<>>}
    ELSE {Append(s, c) : s \in StringsOfLen(alphabet, n - 1), c \in alphabet}

StringsUpTo(alphabet, n) == UNION {StringsOfLen(alphabet, k) : k \in 0..n}

\* /\s/ and String.prototype.trim
IsWhitespace(c) == c \in {" ", "\t", "\n", "\r"}

\* [a-fA-F0-9]
IsHexChar(c) ==
    \/ c \in Range(Digits)
    \/ \E i \in 1..6 : c = LowerLetters[i] \/ c = UpperLetters[i]

LowerOf == [c \in Range(UpperLetters) |-> LowerLetters[CHOOSE i \in 1..26 : UpperLetters[i] = c]]

ToLowerChar(c) == IF c \in DOMAIN LowerOf THEN LowerOf[c] ELSE c

toLowerCase(s) == [i \in 1..Len(s) |-> ToLowerChar(s[i])]

\* hex.replace(/\s/g, '')
RemoveWhitespace(s) == SelectSeq(s, LAMBDA c : ~IsWhitespace(c))

RECURSIVE TrimStart(_)
TrimStart(s) ==
    IF s # <<>> /\ IsWhitespace(Head(s)) THEN TrimStart(Tail(s)) ELSE s

RECURSIVE TrimEnd(_)
TrimEnd(s) ==
    IF s # <<>> /\ IsWhitespace(s[Len(s)]) THEN TrimEnd(SubSeq(s, 1, Len(s) - 1)) ELSE s

trim(s) == TrimEnd(TrimStart(s))

HexValueOf == [c \in Range(HexDigitsLower) |-> (CHOOSE i \in 1..16 : HexDigitsLower[i] = c) - 1]

\* value of a digit character in the given radix, -1 when it is not a digit of that radix
DigitValue(c, radix) ==
    LET lc == ToLowerChar(c)
    IN  IF lc \in DOMAIN HexValueOf /\ HexValueOf[lc] < radix THEN HexValueOf[lc] ELSE -1

\* longest prefix of s made of digits of the radix
RECURSIVE DigitPrefixLen(_, _)
DigitPrefixLen(s, radix) ==
    IF s = <<>> \/ DigitValue(Head(s), radix) < 0 THEN 0
    ELSE 1 + DigitPrefixLen(Tail(s), radix)

RECURSIVE DigitsValue(_, _)
DigitsValue(s, radix) ==
    IF s = <<>> THEN 0
    ELSE DigitsValue(SubSeq(s, 1, Len(s) - 1), radix) * radix + DigitValue(s[Len(s)], radix)

\* parseInt(s, radix): leading blanks skipped, optional sign, then the longest run of digits,
\* whatever follows it; NaN when there is no digit
parseInt(s, radix) ==
    LET str    == TrimStart(s)
        signed == str # <<>> /\ Head(str) \in {"-", "+"}
        body   == IF signed THEN Tail(str) ELSE str
        n      == DigitPrefixLen(body, radix)
        mag    == DigitsValue(SubSeq(body, 1, n), radix)
    IN  [isNaN |-> n = 0,
         value |-> IF signed /\ Head(str) = "-" THEN 0 - mag ELSE mag]

\* storing a number into a Uint8Array element: NaN becomes 0, others wrap modulo 256
ToUint8(n) == IF n.isNaN THEN 0 ELSE n.value % 256

(***************************************************************************)
(* crypto.js: hex codec                                                    *)
(***************************************************************************)
OddLength == "Invalid hex string: odd length"
KeccakNotFound == "keccak256 function not found"
NoError == ""

\* hexToBytes without the length check: a last character without a partner is dropped
hexToBytes_dropOdd(hex) ==
    LET Decode(cleanHex) ==
            [error |-> NoError,
             bytes |-> [k \in 1..(Len(cleanHex) \div 2) |->
                           ToUint8(parseInt(SubSeq(cleanHex, 2 * k - 1, 2 * k), 16))]]
    IN  Once(toLowerCase(RemoveWhitespace(hex)), Decode)

\* lines 11-25
hexToBytes(hex) ==
    LET Decode(cleanHex) ==
            IF Len(cleanHex) % 2 # 0
            THEN [error |-> OddLength, bytes |-> <<>>]
            ELSE [error |-> NoError,
                  bytes |-> [k \in 1..(Len(cleanHex) \div 2) |->
                                ToUint8(parseInt(SubSeq(cleanHex, 2 * k - 1, 2 * k), 16))]]
    IN  Once(toLowerCase(RemoveWhitespace(hex)), Decode)

(***************************************************************************)
(* Numbers wider than the model checker's integers                         *)
(*                                                                         *)
(* A 32-bit unsigned word is kept as two 16-bit limbs <<hi, lo>>.  The     *)
(* doubles the code computes are ratios num / den of two such words; the   *)
(* ratio is kept exact.  Math.floor(random * tiles) in IEEE double         *)
(* arithmetic equals the exact floor(num * tiles / den) for every word     *)
(* while tiles <= 50 (the first deviation is at tiles = 51).               *)
(***************************************************************************)
Limb == 256 * 256

Word(hi, lo) == <<hi, lo>>

WordOfInt(n) == <<n \div Limb, n % Limb>>

\* w * k for a small natural k, normalised so that the low limb is < Limb
WordTimes(w, k) == <<w[1] * k + ((w[2] * k) \div Limb), (w[2] * k) % Limb>>

WordLeq(a, b) == a[1] < b[1] \/ (a[1] = b[1] /\ a[2] <= b[2])

\* Math.floor(random * tiles) for random = num / den
FloorTimes(random, tiles) ==
    CHOOSE n \in 0..tiles :
        /\ WordLeq(WordTimes(random.den, n), WordTimes(random.num, tiles))
        /\ (n = tiles \/ ~WordLeq(WordTimes(random.den, n + 1), WordTimes(random.num, tiles)))

\* 0xffffffff
Uint32Max == Word(65535, 65535)

\* 2147483647
Mersenne31 == 2147483647

\* parseInt(hexValue, 16) of eight hexadecimal characters, as a word
parseInt32(hexValue) ==
    Word(parseInt(SubSeq(hexValue, 1, 4), 16).value, parseInt(SubSeq(hexValue, 5, 8), 16).value)

CharsOf(str) == [i \in 1..Len(str) |-> str[i]]

\* `${nonce}`: decimal rendering of a natural number
RECURSIVE ToDecimal(_)
ToDecimal(n) ==
    IF n < 10 THEN <<Digits[n + 1]>> ELSE Append(ToDecimal(n \div 10), Digits[(n % 10) + 1])

\* index.toString(16)
RECURSIVE ToHexString(_)
ToHexString(n) ==
    IF n < 16 THEN <<HexDigitsLower[n + 1]>>
    ELSE Append(ToHexString(n \div 16), HexDigitsLower[(n % 16) + 1])

\* s.padStart(width, '0')
RECURSIVE padStart(_, _)
padStart(s, width) == IF Len(s) >= width THEN s ELSE padStart(<<"0">> \o s, width)

\* pieces.join('')
RECURSIVE Join(_)
Join(pieces) == IF pieces = <<>> THEN <<>> ELSE Head(pieces) \o Join(Tail(pieces))

\* bytesToHex without padStart: a byte below 16 gives one character
bytesToHex_noPad(bytes) == Join([k \in 1..Len(bytes) |-> ToHexString(bytes[k])])

\* lines 32-36: each byte as toString(16).padStart(2, '0'), joined
bytesToHex(bytes) == Join([k \in 1..Len(bytes) |-> padStart(ToHexString(bytes[k]), 2)])

(***************************************************************************)
(* The IEEE double accumulation of generateDeterministicRandom's second    *)
(* declaration: naturals as bit sequences, most significant bit first,     *)
(* without leading zeros, rounded to 53 significant bits after every       *)
(* addition (round to nearest, ties to even).                              *)
(***************************************************************************)
StripZeros(bits) ==
    IF \A i \in 1..Len(bits) : bits[i] = 0 THEN <<>>
    ELSE SubSeq(bits, CHOOSE i \in 1..Len(bits) :
                          bits[i] = 1 /\ \A j \in 1..(i - 1) : bits[j] = 0,
                Len(bits))

Zeros(n) == [i \in 1..n |-> 0]

BitsOfByte(b) == [i \in 1..8 |-> (b \div (2 ^ (8 - i))) % 2]

\* bits + 1: the last 0 becomes 1 and the 1s after it become 0
IncBits(bits) ==
    IF \A i \in 1..Len(bits) : bits[i] = 1 THEN <<1>> \o Zeros(Len(bits))
    ELSE LET k == CHOOSE i \in 1..Len(bits) :
                      bits[i] = 0 /\ \A j \in (i + 1)..Len(bits) : bits[j] = 1
         IN  SubSeq(bits, 1, k - 1) \o <<1>> \o Zeros(Len(bits) - k)

DoubleMantissa == 53

RoundToDouble(bits) ==
    IF Len(bits) <= DoubleMantissa THEN bits
    ELSE LET keep == SubSeq(bits, 1, DoubleMantissa)
             rest == SubSeq(bits, DoubleMantissa + 1, Len(bits))
             tail == \E i \in 2..Len(rest) : rest[i] = 1
             up   == rest[1] = 1 /\ (tail \/ keep[DoubleMantissa] = 1)
         IN  (IF up THEN IncBits(keep) ELSE keep) \o Zeros(Len(rest))

\* value * 256 + byte, as a double
ShiftAddByte(value, byte) == RoundToDouble(StripZeros(value \o BitsOfByte(byte)))

\* the natural given by exactly eight bits
ByteOfBits(b) ==
    128 * b[1] + 64 * b[2] + 32 * b[3] + 16 * b[4] + 8 * b[5] + 4 * b[6] + 2 * b[7] + b[8]

\* the natural below 2^31 given by at most 31 bits
RECURSIVE BitsValue(_)
BitsValue(bits) ==
    IF Len(bits) <= 8 THEN ByteOfBits(Zeros(8 - Len(bits)) \o bits)
    ELSE BitsValue(SubSeq(bits, 1, Len(bits) - 8)) * 256
             + ByteOfBits(SubSeq(bits, Len(bits) - 7, Len(bits)))

\* (a + b) % 2147483647 for a, b < 2147483647, without leaving 32-bit integers
AddMod(a, b) == IF a >= Mersenne31 - b THEN a - (Mersenne31 - b) ELSE a + b

\* value % 2147483647 of a natural given by its bits: 2^31 is 1 modulo 2^31 - 1, so the
\* value is congruent to the sum of its 31-bit groups
RECURSIVE ModMersenne31(_)
ModMersenne31(bits) ==
    IF Len(bits) <= 31
    THEN LET v == BitsValue(bits) IN IF v = Mersenne31 THEN 0 ELSE v
    ELSE AddMod(ModMersenne31(SubSeq(bits, 1, Len(bits) - 31)),
                ModMersenne31(SubSeq(bits, Len(bits) - 30, Len(bits))))

(***************************************************************************)
(* The digest libraries                                                    *)
(***************************************************************************)
\* a library call that raises an exception instead of returning a digest
Throw == <<"throw">>

CharTable == Digits \o LowerLetters \o UpperLetters \o <<":", " ", ",", "-", "+", ".">>

CharCodeOf == [c \in Range(CharTable) |-> CHOOSE i \in DOMAIN CharTable : CharTable[i] = c]

CharCode(c) == IF c \in DOMAIN CharCodeOf THEN CharCodeOf[c] ELSE 0

RECURSIVE Checksum(_)
Checksum(str) ==
    IF str = <<>> THEN 0
    ELSE IF Len(str) = 1 THEN CharCode(str[1])
    ELSE LET h == Len(str) \div 2
         IN  Checksum(SubSeq(str, 1, h)) + Checksum(SubSeq(str, h + 1, Len(str)))

RECURSIVE ByteSum(_)
ByteSum(bytes) ==
    IF bytes = <<>> THEN 0
    ELSE IF Len(bytes) = 1 THEN bytes[1]
    ELSE LET h == Len(bytes) \div 2
         IN  ByteSum(SubSeq(bytes, 1, h)) + ByteSum(SubSeq(bytes, h + 1, Len(bytes)))

\* README.md: seedHash of the documented sample game
SampleSeedHash ==
    <<"5","a","3","8","9","b","c","2","f","1","a","2","0","7","3","9","b","5","6","2","0","5",
    "5","7","0","2","a","2","b","e","8","c","3","7","5","5","2","9","2","3","e","d","f","3","d",
    "6","0","c","5","d","b","3","e","1","6","c","d","c","a","c","4","9","d","5">>

\* README.md: revealedSeed of the documented sample game (65 characters)
SampleSeed ==
    <<"2","8","3","c","2","7","b","f","e","c","0","a","6","3","2","2","4","9","5","4","8","8",
    "c","b","6","1","3","2","4","e","8","6","6","5","c","8","1","a","2","0","5","4","a","0","8",
    "e","3","1","9","0","f","5","1","7","c","6","9","b","8","d","4","9","8","0","8">>

\* README.md: rowConfiguration of the documented sample game
SampleRowConfigStr ==
    <<"6",",","4",",","2",",","3",",","4",",","3",",","4",",","2",
    ",","3",",","3",",","2",",","3",",","4",",","3",",","2",",",
    "3",",","3",",","3",",","4",",","4",",","3",",","2",",","3",
    ",","3",",","3">>

\* a 64-character seed whose HMAC-SHA256 digest for round index 0 begins with ffffffff
BoundarySeed ==
    <<"c","4","1","d","7","e","9","0","a","3","5","b","6","2","f","8","e","0","7","d","4","c",
    "1","9","b","6","a","2","f","3","0","5","8","d","1","e","7","b","0","0","0","0","0","0","0",
    "0","0","0","0","0","0","0","0","0","0","0","7","9","a","b","e","7","1","6">>

\* first 8 hex characters of HmacSHA256(SampleSeed:i, SampleSeed), i = 0..24
SampleHmacSHA256 ==
    <<<<"3","7","d","6","6","0","9","2">>,
      <<"7","7","6","d","0","9","3","0">>,
      <<"f","1","9","0","6","4","f","e">>,
      <<"2","5","6","f","9","c","e","b">>,
      <<"5","7","5","9","9","2","9","9">>,
      <<"d","7","2","5","6","e","1","e">>,
      <<"8","3","0","4","b","1","5","b">>,
      <<"0","8","a","b","3","0","d","5">>,
      <<"d","4","7","8","0","b","e","a">>,
      <<"c","d","1","8","a","4","f","5">>,
      <<"6","f","d","5","5","5","e","1">>,
      <<"5","6","6","a","5","1","4","f">>,
      <<"e","2","a","8","1","e","e","3">>,
      <<"7","8","9","8","d","9","5","6">>,
      <<"c","0","4","1","f","e","0","c">>,
      <<"7","c","2","d","4","3","a","9">>,
      <<"8","b","3","e","d","7","e","d">>,
      <<"9","2","3","2","4","6","2","0">>,
      <<"c","f","c","4","0","e","e","b">>,
      <<"3","1","4","4","7","c","4","f">>,
      <<"5","6","e","6","a","e","d","7">>,
      <<"e","0","e","a","a","c","b","9">>,
      <<"1","1","b","0","d","c","7","1">>,
      <<"2","e","a","f","2","0","0","e">>,
      <<"a","2","0","f","4","4","b","8">>>>

\* first 8 hex characters of HmacSHA256(BoundarySeed:i, BoundarySeed), i = 0..5
BoundaryHmacSHA256 ==
    <<<<"f","f","f","f","f","f","f","f">>,
      <<"5","f","2","2","9","b","8","e">>,
      <<"f","5","b","0","9","2","8","1">>,
      <<"b","3","8","6","2","e","5","6">>,
      <<"5","7","d","1","d","7","0","a">>,
      <<"a","a","0","0","e","c","c","b">>>>

\* first 16 hex characters of keccak256(SampleSeed + hex8(i)), i = 0..24
SampleKeccak256 ==
    <<<<"7","9","0","f","a","b","6","d","e","3","6","a","7","f","e","e">>,
      <<"1","9","3","a","2","d","7","0","f","c","9","1","a","d","3","e">>,
      <<"3","7","f","0","c","d","b","5","8","f","e","9","8","9","e","2">>,
      <<"9","5","d","7","b","3","f","6","b","8","d","6","8","e","0","e">>,
      <<"a","9","a","5","e","7","8","0","2","6","c","9","e","1","8","a">>,
      <<"4","6","a","0","a","c","b","c","9","e","b","e","1","0","9","c">>,
      <<"2","2","0","b","5","2","8","d","b","6","0","e","3","6","b","b">>,
      <<"e","b","a","0","5","d","5","7","8","d","5","6","e","a","1","4">>,
      <<"6","8","2","2","d","f","5","3","e","e","e","c","8","b","8","e">>,
      <<"e","5","7","d","2","7","6","9","2","7","8","0","1","7","3","f">>,
      <<"d","1","1","c","9","0","6","2","8","4","8","8","b","b","7","5">>,
      <<"d","5","b","c","0","5","9","8","f","4","b","6","a","b","0","7">>,
      <<"2","6","1","e","8","1","d","d","a","1","a","c","e","1","7","3">>,
      <<"7","9","9","f","8","7","2","d","6","4","b","b","c","2","3","d">>,
      <<"1","1","9","7","e","1","b","c","b","b","a","7","a","2","e","7">>,
      <<"1","f","f","f","9","f","4","6","1","2","2","1","e","7","6","3">>,
      <<"2","8","a","d","c","e","c","a","b","a","7","9","7","0","f","5">>,
      <<"9","6","0","8","d","8","e","f","4","a","f","3","3","d","c","0">>,
      <<"1","0","9","d","5","c","b","c","e","e","8","e","6","6","0","6">>,
      <<"e","d","e","8","2","4","c","8","7","c","9","c","9","e","c","e">>,
      <<"0","b","1","5","b","9","6","2","8","f","a","5","9","1","a","2">>,
      <<"0","5","8","d","b","4","d","7","1","2","6","9","b","0","c","9">>,
      <<"7","6","b","1","b","f","f","e","c","7","c","c","f","b","f","2">>,
      <<"3","3","1","3","9","5","4","4","9","b","b","b","6","a","9","2">>,
      <<"2","9","d","4","c","e","d","f","a","6","b","2","3","8","7","c">>>>

\* first 16 hex characters of keccak256(BoundarySeed + hex8(i)), i = 0..5
BoundaryKeccak256 ==
    <<<<"6","0","7","9","8","7","e","b","4","c","4","7","8","c","4","f">>,
      <<"1","2","8","7","4","7","f","4","6","6","4","b","5","f","4","6">>,
      <<"6","7","8","c","c","d","8","d","0","0","e","c","2","1","3","0">>,
      <<"3","4","b","6","e","f","e","a","1","2","0","2","8","a","a","8">>,
      <<"4","1","3","2","f","9","4","c","d","e","d","6","9","8","3","1">>,
      <<"a","f","7","b","d","9","6","1","9","2","e","2","4","4","f","4">>>>

\* the values the libraries may return for inputs other than the two seeds above;
\* round i of a seed gets entry (Checksum + salt) modulo the table length
HmacOutcomes == << <<"0","0","0","0","0","0","0","0">>,
                   <<"5","5","5","5","5","5","5","5">>,
                   <<"f","f","f","f","f","f","f","f">>,
                   Throw,
                   <<"9","e","3","7","7","9","b","9">> >>

KeccakOutcomes == << <<"0","0","0","0","0","0","0","0","0","0","0","0","0","0","0","0">>,
                     <<"0","0","0","0","0","0","0","0","7","f","f","f","f","f","f","e">>,
                     <<"f","f","f","f","f","f","f","f","f","f","f","f","f","b","f","f">>,
                     Throw,
                     <<"9","e","3","7","7","9","b","9","7","f","4","a","7","c","1","5">> >>

Salts == 0..(Len(HmacOutcomes) - 1)

\* characters of the modelled Keccak digest of a byte sequence
DigestChars == <<"0", "a", "f">>

\* position of message in the list key:0, key:1, ... of n messages, 0 when it is not there
MessageIndex(message, key, n) ==
    IF Len(message) > Len(key) + 1 /\ SubSeq(message, 1, Len(key) + 1) = key \o <<":">>
    THEN LET suffix == SubSeq(message, Len(key) + 2, Len(message))
             nonce  == parseInt(suffix, 10)
         IN  IF ~nonce.isNaN /\ nonce.value >= 0 /\ nonce.value < n
                   /\ ToDecimal(nonce.value) = suffix
             THEN nonce.value + 1
             ELSE 0
    ELSE 0

\* CryptoJS.HmacSHA256(message, key).toString(), the characters the code reads
HmacSHA256(message, key) ==
    IF key = SampleSeed /\ MessageIndex(message, key, Len(SampleHmacSHA256)) > 0
    THEN SampleHmacSHA256[MessageIndex(message, key, Len(SampleHmacSHA256))]
    ELSE IF key = BoundarySeed /\ MessageIndex(message, key, Len(BoundaryHmacSHA256)) > 0
    THEN BoundaryHmacSHA256[MessageIndex(message, key, Len(BoundaryHmacSHA256))]
    ELSE HmacOutcomes[((Checksum(message) + Checksum(key) + salt) % Len(HmacOutcomes)) + 1]

\* position of combined in the list seed00000000, seed00000001, ... of n texts, 0 when not there
CombinedIndex(combined, seed, n) ==
    IF Len(combined) = Len(seed) + 8 /\ SubSeq(combined, 1, Len(seed)) = seed
    THEN LET suffix == SubSeq(combined, Len(seed) + 1, Len(combined))
             index  == parseInt(suffix, 16)
         IN  IF ~index.isNaN /\ index.value >= 0 /\ index.value < n
                   /\ padStart(ToHexString(index.value), 8) = suffix
             THEN index.value + 1
             ELSE 0
    ELSE 0

\* keccak256(string), the characters the code reads
keccak256String(combined) ==
    IF CombinedIndex(combined, SampleSeed, Len(SampleKeccak256)) > 0
    THEN SampleKeccak256[CombinedIndex(combined, SampleSeed, Len(SampleKeccak256))]
    ELSE IF CombinedIndex(combined, BoundarySeed, Len(BoundaryKeccak256)) > 0
    THEN BoundaryKeccak256[CombinedIndex(combined, BoundarySeed, Len(BoundaryKeccak256))]
    ELSE KeccakOutcomes[((Checksum(combined) + salt) % Len(KeccakOutcomes)) + 1]

\* the digest of bytes in one member of the family: lower-case hexadecimal, cut to the
\* MaxHashLen characters the model compares
KeccakDigest(bytes, member) ==
    LET Digest(sum) ==
            [k \in 1..MaxHashLen |->
                DigestChars[((sum[1] + k * (sum[2] + 1) + member) % Len(DigestChars)) + 1]]
    IN  Once(<<ByteSum(bytes), Len(bytes)>>, Digest)

\* keccak256(Uint8Array)
keccak256Bytes(bytes) == KeccakDigest(bytes, salt)

(***************************************************************************)
(* crypto.js: verifySeed                                                   *)
(***************************************************************************)
\* verifySeed comparing the digest with the commitment as written
verifySeed_caseSensitive(seed, expectedHash) ==
    LET decoded == hexToBytes(seed)
    IN  IF decoded.error # NoError
        THEN [ret |-> FALSE, caught |-> decoded.error, thrown |-> NoError]
        ELSE IF ~keccakLoaded
        THEN [ret |-> FALSE, caught |-> KeccakNotFound, thrown |-> NoError]
        ELSE [ret |-> keccak256Bytes(decoded.bytes) = expectedHash,
              caught |-> NoError, thrown |-> NoError]

\* verifySeed comparing only the first character of the digest and of the commitment
verifySeed_firstCharacter(seed, expectedHash) ==
    LET decoded == hexToBytes(seed)
    IN  IF decoded.error # NoError
        THEN [ret |-> FALSE, caught |-> decoded.error, thrown |-> NoError]
        ELSE IF ~keccakLoaded
        THEN [ret |-> FALSE, caught |-> KeccakNotFound, thrown |-> NoError]
        ELSE [ret |-> /\ expectedHash # <<>>
                      /\ ToLowerChar(keccak256Bytes(decoded.bytes)[1]) = ToLowerChar(expectedHash[1]),
              caught |-> NoError, thrown |-> NoError]

\* ret is the value returned to the caller, caught the error the catch block logged,
\* thrown the error that leaves the function (the try block spans the whole body)
verifySeed(seed, expectedHash) ==
    LET decoded == hexToBytes(seed)
    IN  IF decoded.error # NoError
        THEN [ret |-> FALSE, caught |-> decoded.error, thrown |-> NoError]
        ELSE IF ~keccakLoaded
        THEN [ret |-> FALSE, caught |-> KeccakNotFound, thrown |-> NoError]
        ELSE LET actualHash == keccak256Bytes(decoded.bytes)
                 isValid    == toLowerCase(actualHash) = toLowerCase(expectedHash)
             IN  [ret |-> isValid, caught |-> NoError, thrown |-> NoError]

(***************************************************************************)
(* crypto.js: generateDeterministicRandom, generateDeathTiles              *)
(* (each declared twice: lines 86-142 and lines 330-387)                   *)
(***************************************************************************)
CryptoJsNotLoaded == "CryptoJS library not loaded"
LibraryError == "library error"

\* lines 86-99: random is intValue / 0xffffffff
generateDeterministicRandom_1(seed, nonce) ==
    IF ~cryptoJsLoaded
    THEN [error |-> CryptoJsNotLoaded, num |-> Word(0, 0), den |-> Uint32Max]
    ELSE LET message == seed \o <<":">> \o ToDecimal(nonce)
             hash    == HmacSHA256(message, seed)
         IN  IF hash = Throw
             THEN [error |-> LibraryError, num |-> Word(0, 0), den |-> Uint32Max]
             ELSE LET hexValue == SubSeq(hash, 1, 8)
                      intValue == parseInt32(hexValue)
                  IN  [error |-> NoError, num |-> intValue, den |-> Uint32Max]

RECURSIVE AccumulateBytes(_, _, _)
AccumulateBytes(hash, i, value) ==
    IF i = 8 THEN value
    ELSE AccumulateBytes(hash, i + 1,
            ShiftAddByte(value, parseInt(SubSeq(hash, 2 * i + 1, 2 * i + 2), 16).value))

\* lines 330-354: random is (value % 2147483647) / 2147483647
generateDeterministicRandom_2(seed, index) ==
    IF ~keccakLoaded
    THEN [error |-> KeccakNotFound, num |-> Word(0, 0), den |-> WordOfInt(Mersenne31)]
    ELSE LET combined == seed \o padStart(ToHexString(index), 8)
             hash     == keccak256String(combined)
         IN  IF hash = Throw
             THEN [error |-> LibraryError, num |-> Word(0, 0), den |-> WordOfInt(Mersenne31)]
             ELSE LET value == AccumulateBytes(hash, 0, <<>>)
                  IN  [error |-> NoError,
                       num |-> WordOfInt(ModMersenne31(value)),
                       den |-> WordOfInt(Mersenne31)]

\* lines 121-132: forEach over the rows first..last, pushing one index per row, the rows
\* of the first half before those of the second; a row whose derivation throws gets index 0
RECURSIVE PushRows_1(_, _, _, _)
PushRows_1(seed, rowConfig, first, last) ==
    IF first > last THEN <<>>
    ELSE IF first = last
    THEN LET deathTileIndex(random) ==
                 IF random.error # NoError THEN 0
                 ELSE FloorTimes(random, rowConfig[first])
         IN  <<Once(generateDeterministicRandom_1(seed, first - 1), deathTileIndex)>>
    ELSE LET middle == (first + last) \div 2
         IN  PushRows_1(seed, rowConfig, first, middle)
                 \o PushRows_1(seed, rowConfig, middle + 1, last)

\* lines 110-142
generateDeathTiles_1(seed, rowConfig) ==
    IF seed = <<>> THEN <<>>
    ELSE PushRows_1(seed, rowConfig, 1, Len(rowConfig))

\* lines 373-379: forEach without a try block inside, over the rows first..last, the rows of
\* the first half before those of the second; a row whose derivation throws ends the loop
RECURSIVE PushRows_2(_, _, _, _)
PushRows_2(seed, rowConfig, first, last) ==
    IF first > last THEN [thrown |-> FALSE, deathTiles |-> <<>>]
    ELSE IF first = last
    THEN LET Row(random) ==
                 IF random.error # NoError
                 THEN [thrown |-> TRUE, deathTiles |-> <<>>]
                 ELSE [thrown |-> FALSE,
                       deathTiles |-> <<FloorTimes(random, rowConfig[first])>>]
         IN  Once(generateDeterministicRandom_2(seed, first - 1), Row)
    ELSE LET middle == (first + last) \div 2
             Rest(rows) ==
                 IF rows.thrown THEN rows
                 ELSE LET After(later) ==
                              [thrown |-> later.thrown,
                               deathTiles |-> rows.deathTiles \o later.deathTiles]
                      IN  Once(PushRows_2(seed, rowConfig, middle + 1, last), After)
         IN  Once(PushRows_2(seed, rowConfig, first, middle), Rest)

\* lines 362-387: after a throw the catch block returns []
generateDeathTiles_2(seed, rowConfig) ==
    IF seed = <<>> THEN <<>>
    ELSE LET Outcome(rows) == IF rows.thrown THEN <<>> ELSE rows.deathTiles
         IN  Once(PushRows_2(seed, rowConfig, 1, Len(rowConfig)), Outcome)

FirstDeclaration == "lines 86-142"
SecondDeclaration == "lines 330-387"

\* generateDeathTiles returning nothing while the debug panel is open
generateDeathTiles_debugAware(seed, rowConfig) ==
    IF isDebugMode THEN <<>>
    ELSE IF binding = SecondDeclaration
    THEN generateDeathTiles_2(seed, rowConfig)
    ELSE generateDeathTiles_1(seed, rowConfig)

\* generateDeathTiles taking every row to have the size of the first one
generateDeathTiles_firstRowSize(seed, rowConfig) ==
    LET sizes == [k \in 1..Len(rowConfig) |-> rowConfig[1]]
    IN  IF binding = SecondDeclaration
        THEN generateDeathTiles_2(seed, sizes)
        ELSE generateDeathTiles_1(seed, sizes)

\* the declaration of generateDeterministicRandom in effect
generateDeterministicRandom(seed, index) ==
    IF binding = SecondDeclaration
    THEN generateDeterministicRandom_2(seed, index)
    ELSE generateDeterministicRandom_1(seed, index)

\* the declaration in effect
generateDeathTiles(seed, rowConfig) ==
    IF binding = SecondDeclaration
    THEN generateDeathTiles_2(seed, rowConfig)
    ELSE generateDeathTiles_1(seed, rowConfig)

(***************************************************************************)
(* crypto.js: parseRowConfig, validateGameData, createVerificationResult   *)
(* script.js: getFormData, verifyGame                                      *)
(***************************************************************************)
\* str.split(sep): the piece before the first separator, then the pieces of the rest
RECURSIVE Split(_, _)
Split(str, sep) ==
    IF \A i \in 1..Len(str) : str[i] # sep THEN <<str>>
    ELSE LET Cut(p) ==
                 <<SubSeq(str, 1, p - 1)>>
                     \o Once(SubSeq(str, p + 1, Len(str)), LAMBDA rest : Split(rest, sep))
         IN  Once(CHOOSE i \in 1..Len(str) : str[i] = sep /\ \A j \in 1..(i - 1) : str[j] # sep,
                  Cut)

\* lines 149-165
parseRowConfig(rowConfigStr) ==
    IF rowConfigStr = <<>> THEN <<>>
    ELSE LET pieces   == Split(rowConfigStr, ",")
             trimmed  == [k \in 1..Len(pieces) |-> trim(pieces[k])]
             nonEmpty == SelectSeq(trimmed, LAMBDA piece : Len(piece) > 0)
             parsed   == [k \in 1..Len(nonEmpty) |-> parseInt(nonEmpty[k], 10)]
             kept     == SelectSeq(parsed, LAMBDA n : ~n.isNaN /\ n.value > 0)
         IN  [k \in 1..Len(kept) |-> kept[k].value]

\* script.js lines 132-151: the three input values, trimmed, the last one parsed
getFormData(inputs) ==
    [seedHash  |-> trim(inputs.seedHash),
     seed      |-> trim(inputs.seed),
     rowConfig |-> parseRowConfig(trim(inputs.rowConfig))]

\* the pattern without its anchors: one hexadecimal character somewhere is enough
IsHexString_unanchored(str) == \E i \in 1..Len(str) : IsHexChar(str[i])

\* /^[a-fA-F0-9]+$/.test(str)
IsHexString(str) == str # <<>> /\ \A i \in 1..Len(str) : IsHexChar(str[i])

HashRequired == "Seed hash is required"
HashNotHex == "Seed hash must be a valid hexadecimal string"
SeedRequired == "Revealed seed is required"
SeedNotHex == "Revealed seed must be a valid hexadecimal string"
RowConfigRequired == "Row configuration is required"
RowConfigOutOfRange == "Row configuration must contain numbers between 1 and 10"

\* validateGameData without the upper limit of a row
validateGameData_noUpperLimit(gameData) ==
    LET hashErrors ==
            IF trim(gameData.seedHash) = <<>> THEN <<HashRequired>>
            ELSE IF ~IsHexString(trim(gameData.seedHash)) THEN <<HashNotHex>>
            ELSE <<>>
        seedErrors ==
            IF trim(gameData.seed) = <<>> THEN <<SeedRequired>>
            ELSE IF ~IsHexString(trim(gameData.seed)) THEN <<SeedNotHex>>
            ELSE <<>>
        rowErrors ==
            IF Len(gameData.rowConfig) = 0 THEN <<RowConfigRequired>>
            ELSE IF \E k \in 1..Len(gameData.rowConfig) : gameData.rowConfig[k] < 1
            THEN <<RowConfigOutOfRange>>
            ELSE <<>>
        errors == hashErrors \o seedErrors \o rowErrors
    IN  [isValid |-> Len(errors) = 0, errors |-> errors]

\* validateGameData stopping at the first field that is wrong
validateGameData_failFast(gameData) ==
    LET hashErrors ==
            IF trim(gameData.seedHash) = <<>> THEN <<HashRequired>>
            ELSE IF ~IsHexString(trim(gameData.seedHash)) THEN <<HashNotHex>>
            ELSE <<>>
        seedErrors ==
            IF trim(gameData.seed) = <<>> THEN <<SeedRequired>>
            ELSE IF ~IsHexString(trim(gameData.seed)) THEN <<SeedNotHex>>
            ELSE <<>>
        rowErrors ==
            IF Len(gameData.rowConfig) = 0 THEN <<RowConfigRequired>>
            ELSE IF \E k \in 1..Len(gameData.rowConfig) :
                        gameData.rowConfig[k] < 1 \/ gameData.rowConfig[k] > 10
            THEN <<RowConfigOutOfRange>>
            ELSE <<>>
        errors == IF hashErrors # <<>> THEN hashErrors
                  ELSE IF seedErrors # <<>> THEN seedErrors
                  ELSE rowErrors
    IN  [isValid |-> Len(errors) = 0, errors |-> errors]

\* validateGameData without the checks of the seed
validateGameData_ignoresSeed(gameData) ==
    LET hashErrors ==
            IF trim(gameData.seedHash) = <<>> THEN <<HashRequired>>
            ELSE IF ~IsHexString(trim(gameData.seedHash)) THEN <<HashNotHex>>
            ELSE <<>>
        rowErrors ==
            IF Len(gameData.rowConfig) = 0 THEN <<RowConfigRequired>>
            ELSE IF \E k \in 1..Len(gameData.rowConfig) :
                        gameData.rowConfig[k] < 1 \/ gameData.rowConfig[k] > 10
            THEN <<RowConfigOutOfRange>>
            ELSE <<>>
        errors == hashErrors \o rowErrors
    IN  [isValid |-> Len(errors) = 0, errors |-> errors]

\* lines 173-202
validateGameData(gameData) ==
    LET hashErrors ==
            IF trim(gameData.seedHash) = <<>> THEN <<HashRequired>>
            ELSE IF ~IsHexString(trim(gameData.seedHash)) THEN <<HashNotHex>>
            ELSE <<>>
        seedErrors ==
            IF trim(gameData.seed) = <<>> THEN <<SeedRequired>>
            ELSE IF ~IsHexString(trim(gameData.seed)) THEN <<SeedNotHex>>
            ELSE <<>>
        rowErrors ==
            IF Len(gameData.rowConfig) = 0 THEN <<RowConfigRequired>>
            ELSE IF \E k \in 1..Len(gameData.rowConfig) :
                        gameData.rowConfig[k] < 1 \/ gameData.rowConfig[k] > 10
            THEN <<RowConfigOutOfRange>>
            ELSE <<>>
        errors == hashErrors \o seedErrors \o rowErrors
    IN  [isValid |-> Len(errors) = 0, errors |-> errors]

RECURSIVE Sum(_)
Sum(numbers) ==
    IF numbers = <<>> THEN 0
    ELSE IF Len(numbers) = 1 THEN numbers[1]
    ELSE LET h == Len(numbers) \div 2
         IN  Sum(SubSeq(numbers, 1, h)) + Sum(SubSeq(numbers, h + 1, Len(numbers)))

VerifierVersion == "1.0.0"

\* createVerificationResult giving the number of rows as the number of tiles
createVerificationResult_countsRows(gameData, isValid, deathTiles) ==
    LET hasRowConfig == "rowConfig" \in DOMAIN gameData
    IN  [present      |-> TRUE,
         gameData     |-> IF hasRowConfig
                          THEN [seedHash |-> gameData.seedHash, seed |-> gameData.seed,
                                rowConfig |-> gameData.rowConfig]
                          ELSE [seedHash |-> gameData.seedHash, seed |-> gameData.seed],
         verification |-> [seedValid |-> isValid, deathTiles |-> deathTiles,
                           timestamp |-> now, verifierVersion |-> VerifierVersion],
         summary      |-> [totalRows |-> IF hasRowConfig THEN Len(gameData.rowConfig) ELSE 0,
                           totalTiles |-> IF hasRowConfig THEN Len(gameData.rowConfig) ELSE 0]]

\* lines 211-229; a gameData object without the property rowConfig is a record without
\* that field
createVerificationResult(gameData, isValid, deathTiles) ==
    LET hasRowConfig == "rowConfig" \in DOMAIN gameData
    IN  [present      |-> TRUE,
         gameData     |-> IF hasRowConfig
                          THEN [seedHash |-> gameData.seedHash, seed |-> gameData.seed,
                                rowConfig |-> gameData.rowConfig]
                          ELSE [seedHash |-> gameData.seedHash, seed |-> gameData.seed],
         verification |-> [seedValid |-> isValid, deathTiles |-> deathTiles,
                           timestamp |-> now, verifierVersion |-> VerifierVersion],
         summary      |-> [totalRows |-> IF hasRowConfig THEN Len(gameData.rowConfig) ELSE 0,
                           totalTiles |-> IF hasRowConfig THEN Sum(gameData.rowConfig) ELSE 0]]

\* verifyGame reconstructing only when the seed matched
verifyGame_onlyWhenValid(gameData) ==
    LET isValid    == verifySeed(gameData.seed, gameData.seedHash).ret
        deathTiles == IF isValid THEN generateDeathTiles(gameData.seed, gameData.rowConfig)
                      ELSE <<>>
    IN  createVerificationResult(gameData, isValid, deathTiles)

\* verifyGame leaving the reconstruction out while the debug panel is open
verifyGame_debugAware(gameData) ==
    LET isValid    == verifySeed(gameData.seed, gameData.seedHash).ret
        deathTiles == IF isDebugMode THEN <<>>
                      ELSE generateDeathTiles(gameData.seed, gameData.rowConfig)
    IN  createVerificationResult(gameData, isValid, deathTiles)

\* script.js lines 156-188
verifyGame(gameData) ==
    LET isValid    == verifySeed(gameData.seed, gameData.seedHash).ret
        deathTiles == generateDeathTiles(gameData.seed, gameData.rowConfig)
    IN  createVerificationResult(gameData, isValid, deathTiles)

(***************************************************************************)
(* Environment shared by the specifications                                *)
(***************************************************************************)
NoCall == [op |-> "none"]
NoFields == [seedHash |-> <<>>, seed |-> <<>>, rowConfig |-> <<>>]
NoFormData == [seedHash |-> <<>>, seed |-> <<>>, rowConfig |-> <<>>]
NoValidation == [isValid |-> FALSE, errors |-> <<>>]

\* verificationResult = null
NoResult ==
    [present      |-> FALSE,
     gameData     |-> NoFormData,
     verification |-> [seedValid |-> FALSE, deathTiles |-> <<>>, timestamp |-> 0,
                       verifierVersion |-> VerifierVersion],
     summary      |-> [totalRows |-> 0, totalTiles |-> 0]]

\* the page as loaded: no status, button enabled, placeholder instead of a board
InitialUi ==
    [status |-> "none", loading |-> FALSE, error |-> <<>>, board |-> <<>>,
     boardShown |-> FALSE, copyVisible |-> FALSE]

\* the form of script.js is not in use
FormIdle ==
    /\ fields = NoFields
    /\ formData = NoFormData
    /\ validation = NoValidation
    /\ verificationResult = NoResult
    /\ ui = InitialUi
    /\ pc = "idle"

FormUnchanged == UNCHANGED <<fields, formData, validation, verificationResult, ui, pc>>

EnvUnchanged == UNCHANGED <<binding, salt, cryptoJsLoaded, keccakLoaded>>

(***************************************************************************)
(* SpecVerify: verifySeed called directly on any seed and commitment       *)
(***************************************************************************)
SeedStrings == StringsUpTo(Alphabet, MaxSeedLen)
HashStrings == StringsUpTo(Alphabet, MaxHashLen)

InitVerify ==
    /\ binding = FirstDeclaration
    /\ salt \in Salts
    /\ cryptoJsLoaded = TRUE
    /\ keccakLoaded \in BOOLEAN
    /\ isDebugMode = FALSE
    /\ now = 0
    /\ pinned = NoCall
    /\ FormIdle
    /\ \E seed \in SeedStrings, expectedHash \in HashStrings :
          call = [op |-> "verifySeed", state |-> "pending", seed |-> seed,
                  expectedHash |-> expectedHash,
                  ret |-> FALSE, caught |-> NoError, thrown |-> NoError]

VerifySeedCall ==
    /\ call.op = "verifySeed"
    /\ call.state = "pending"
    /\ LET r == verifySeed(call.seed, call.expectedHash)
       IN  call' = [call EXCEPT !.state = "returned", !.ret = r.ret,
                                !.caught = r.caught, !.thrown = r.thrown]
    /\ UNCHANGED <<isDebugMode, now, pinned>>
    /\ EnvUnchanged
    /\ FormUnchanged

NextVerify == VerifySeedCall

SpecVerify == InitVerify /\ [][NextVerify]_vars

VerifyReturned == call.op = "verifySeed" /\ call.state = "returned"

\* the two characters are the same letter or digit, whatever their case
SameCharIgnoringCase(c, d) ==
    \/ c = d
    \/ \E i \in 1..26 : {c, d} = {LowerLetters[i], UpperLetters[i]}

EqualIgnoringCase(a, b) ==
    /\ Len(a) = Len(b)
    /\ \A i \in 1..Len(a) : SameCharIgnoringCase(a[i], b[i])

toUpperCase(s) ==
    [i \in 1..Len(s) |->
        IF \E k \in 1..26 : LowerLetters[k] = s[i]
        THEN UpperLetters[CHOOSE k \in 1..26 : LowerLetters[k] = s[i]]
        ELSE s[i]]

\* the seed decodes and the digest library is present: the digest of the seed bytes exists
HasDigest(seed) == hexToBytes(seed).error = NoError /\ keccakLoaded

DigestOf(seed) == keccak256Bytes(hexToBytes(seed).bytes)

\* C3: verifySeed returns true exactly when the digest of the decoded seed bytes exists and
\* equals the commitment up to letter case; the commitment in upper case and in lower case
\* give the result of the commitment as passed.
C3_CaseInsensitiveIff ==
    VerifyReturned =>
        /\ call.ret <=> (HasDigest(call.seed) /\ EqualIgnoringCase(DigestOf(call.seed), call.expectedHash))
        /\ verifySeed(call.seed, toUpperCase(call.expectedHash)).ret = call.ret
        /\ verifySeed(call.seed, toLowerCase(call.expectedHash)).ret = call.ret

\* a call that returned true for a commitment written with an upper-case letter
C3_Witness ==
    /\ VerifyReturned
    /\ call.ret = TRUE
    /\ call.expectedHash # toLowerCase(call.expectedHash)

WellFormedHex(s) ==
    /\ s # <<>>
    /\ Len(s) % 2 = 0
    /\ \A i \in 1..Len(s) : IsHexChar(s[i])

\* C4 as stated: for a well-formed seed, every commitment string different from the digest
\* string makes verifySeed return false without throwing.
C4_Original ==
    (VerifyReturned /\ WellFormedHex(call.seed) /\ keccakLoaded
        /\ call.expectedHash # DigestOf(call.seed))
    => (call.ret = FALSE /\ call.thrown = NoError)

\* C4 amended: for a well-formed seed, every commitment that differs from the digest by more
\* than letter case makes verifySeed return false without throwing.
C4_MismatchIsFalse ==
    (VerifyReturned /\ WellFormedHex(call.seed)
        /\ ~(HasDigest(call.seed) /\ EqualIgnoringCase(DigestOf(call.seed), call.expectedHash)))
    => (call.ret = FALSE /\ call.thrown = NoError)

\* a well-formed seed checked against a hexadecimal commitment of the digest's length that is
\* not its digest
C4_Witness ==
    /\ VerifyReturned
    /\ WellFormedHex(call.seed)
    /\ keccakLoaded
    /\ WellFormedHex(call.expectedHash)
    /\ ~EqualIgnoringCase(DigestOf(call.seed), call.expectedHash)
    /\ call.ret = FALSE

\* odd length or a character that is not hexadecimal
MalformedHex(s) == (Len(s) % 2 # 0) \/ (\E i \in 1..Len(s) : ~IsHexChar(s[i]))

\* C9 as stated: verifySeed called with a malformed seed fails with a decoding error that
\* reaches the caller, who can tell it from the false of a mismatch.
C9_Original ==
    (VerifyReturned /\ MalformedHex(call.seed)) => call.thrown # NoError

\* C9 amended: verifySeed called with a malformed seed never raises; when the seed has odd
\* length once blanks are removed the decoding error is caught and logged and the call returns
\* false, the value of a mismatch; otherwise the seed is decoded without error and the result
\* is that of comparing the digest of the decoded bytes.
C9_MalformedReturnsBoolean ==
    (VerifyReturned /\ MalformedHex(call.seed)) =>
        /\ call.thrown = NoError
        /\ (Len(RemoveWhitespace(call.seed)) % 2 # 0)
              => (call.ret = FALSE /\ call.caught = OddLength)
        /\ (Len(RemoveWhitespace(call.seed)) % 2 = 0)
              => /\ call.caught # OddLength
                 /\ call.ret <=> (keccakLoaded /\
                        EqualIgnoringCase(DigestOf(call.seed), call.expectedHash))

\* an odd-length seed returned false with the decoding error caught
C9_Witness ==
    /\ VerifyReturned
    /\ Len(call.seed) % 2 # 0
    /\ call.caught = OddLength
    /\ call.ret = FALSE
    /\ call.thrown = NoError

(***************************************************************************)
(* SpecTiles: generateDeathTiles called directly, any number of times      *)
(***************************************************************************)
\* sizes of a row and the seeds of the direct calls (a seed is only text to this function);
\* one behaviour is about one seed, fixed from the start, with any row configurations
TileSizes == {1, 3}
TileSeeds == {<<>>, <<"a">>, BoundarySeed}
RowConfigs == UNION {[1..n -> TileSizes] : n \in 0..MaxRounds}

NoTilesCall == [op |-> "none", seed |-> <<>>, rowConfig |-> <<>>, ret |-> <<>>]

InitTiles ==
    /\ binding \in {FirstDeclaration, SecondDeclaration}
    /\ cryptoJsLoaded \in BOOLEAN
    /\ keccakLoaded \in BOOLEAN
    /\ salt \in Salts
    \* only the library the bound declaration calls matters, and only when it is loaded
    /\ binding = FirstDeclaration => keccakLoaded /\ (cryptoJsLoaded \/ salt = 0)
    /\ binding = SecondDeclaration => cryptoJsLoaded /\ (keccakLoaded \/ salt = 0)
    /\ isDebugMode = FALSE
    /\ now = 0
    /\ \E seed \in TileSeeds : call = [NoTilesCall EXCEPT !.seed = seed]
    /\ pinned = NoTilesCall
    /\ FormIdle

GenerateDeathTilesCall ==
    /\ \E rowConfig \in RowConfigs :
          call' = [op |-> "generateDeathTiles", seed |-> call.seed, rowConfig |-> rowConfig,
                   ret |-> generateDeathTiles(call.seed, rowConfig)]
    /\ UNCHANGED <<isDebugMode, now, pinned>>
    /\ EnvUnchanged
    /\ FormUnchanged

\* keep the latest call for comparison with the calls that follow
Pin ==
    /\ call.op = "generateDeathTiles"
    /\ pinned' = call
    /\ UNCHANGED <<isDebugMode, now, call>>
    /\ EnvUnchanged
    /\ FormUnchanged

\* script.js toggleDebugMode (Ctrl+Shift+D)
ToggleDebugMode ==
    /\ isDebugMode' = ~isDebugMode
    /\ UNCHANGED <<now, call, pinned>>
    /\ EnvUnchanged
    /\ FormUnchanged

\* time passes
Tick ==
    /\ now < MaxClock
    /\ now' = now + 1
    /\ UNCHANGED <<isDebugMode, call, pinned>>
    /\ EnvUnchanged
    /\ FormUnchanged

NextTiles == GenerateDeathTilesCall \/ Pin \/ ToggleDebugMode \/ Tick

SpecTiles == InitTiles /\ [][NextTiles]_vars

TilesReturned == call.op = "generateDeathTiles"

C2_OneIndexPerRound ==
    (TilesReturned /\ call.seed # <<>>) => Len(call.ret) = Len(call.rowConfig)

\* C7: a call with the seed and configuration of an earlier call returns what that call returned.
C7_Deterministic ==
    (TilesReturned /\ pinned.op = "generateDeathTiles"
        /\ call.seed = pinned.seed /\ call.rowConfig = pinned.rowConfig)
    => call.ret = pinned.ret

\* two calls with the same non-empty seed and configuration, in a behaviour where the debug
\* flag was toggled and time passed
C7_Witness ==
    /\ TilesReturned
    /\ pinned.op = "generateDeathTiles"
    /\ call.seed = pinned.seed
    /\ call.rowConfig = pinned.rowConfig
    /\ call.seed # <<>>
    /\ Len(call.ret) = MaxRounds
    /\ isDebugMode
    /\ now > 0

\* C8: two calls with the same seed and configurations of the same length return sequences of
\* the same length that agree at every position where the configurations agree.
C8_Independent ==
    (TilesReturned /\ pinned.op = "generateDeathTiles"
        /\ call.seed = pinned.seed /\ Len(call.rowConfig) = Len(pinned.rowConfig))
    => /\ Len(call.ret) = Len(pinned.ret)
       /\ \A i \in 1..Len(call.ret) :
             call.rowConfig[i] = pinned.rowConfig[i] => call.ret[i] = pinned.ret[i]

\* two configurations that agree at one position and differ at another, with different results
C8_Witness ==
    /\ TilesReturned
    /\ pinned.op = "generateDeathTiles"
    /\ call.seed = pinned.seed
    /\ call.seed # <<>>
    /\ Len(call.rowConfig) = Len(pinned.rowConfig)
    /\ Len(call.ret) = Len(call.rowConfig)
    /\ call.ret # pinned.ret
    /\ \E i, j \in 1..Len(call.ret) :
          /\ call.rowConfig[i] = pinned.rowConfig[i]
          /\ call.rowConfig[j] # pinned.rowConfig[j]
          /\ call.ret[j] # pinned.ret[j]
          /\ call.ret[i] = pinned.ret[i]
          /\ call.ret[i] > 0

\* what round i of the latest call has to hold: 0 when the derivation of the round fails,
\* the index derived from its digest otherwise
RoundAsDerived(i) ==
    LET Expected(random) ==
            IF random.error # NoError THEN 0 ELSE FloorTimes(random, call.rowConfig[i])
    IN  call.ret[i] = Once(generateDeterministicRandom(call.seed, i - 1), Expected)

\* C17: for a non-empty seed the result has one index per round; a round whose digest
\* computation fails holds 0 and every other round holds the index derived from its digest.
C17_FailedRoundIsZero ==
    (TilesReturned /\ call.seed # <<>>) =>
        \A i \in 1..Len(call.rowConfig) : i <= Len(call.ret) /\ RoundAsDerived(i)

\* round i of the latest call holds floor((v / 0xffffffff) * size of the round), v being the
\* first 8 characters of HmacSHA256(seed:i-1, seed) read as a number
RoundFromHmac(i) ==
    LET FromDigest(hash) ==
            hash = Throw
            \/ call.ret[i] = FloorTimes([num |-> parseInt32(SubSeq(hash, 1, 8)),
                                         den |-> Uint32Max], call.rowConfig[i])
    IN  Once(HmacSHA256(call.seed \o <<":">> \o ToDecimal(i - 1), call.seed), FromDigest)

\* C21: with CryptoJS loaded, every round of every call on a non-empty seed holds the index
\* derived from the HMAC-SHA256 digest of that round.
C21_IndexFromHmac ==
    (TilesReturned /\ call.seed # <<>> /\ cryptoJsLoaded) =>
        \A i \in 1..Len(call.rowConfig) : i <= Len(call.ret) /\ RoundFromHmac(i)

(***************************************************************************)
(* SpecNormalize: getFormData and validateGameData on any input values,    *)
(* then verifySeed on what they accept                                     *)
(***************************************************************************)
\* "", "3,1", "11", " 2 , x,0"
RowConfigInputs ==
    { <<>>,
      <<"3", ",", "1">>,
      <<"1", "1">>,
      <<" ", "2", " ", ",", " ", "x", ",", "0">> }

\* one of the two hexadecimal inputs ranges over the longer strings, the other over the shorter
InitNormalize ==
    /\ binding = FirstDeclaration
    /\ salt = 0
    /\ cryptoJsLoaded = TRUE
    /\ keccakLoaded = TRUE
    /\ isDebugMode = FALSE
    /\ now = 0
    /\ call = NoCall
    /\ pinned = NoCall
    /\ \E long \in SeedStrings, short \in HashStrings, rowConfigStr \in RowConfigInputs :
          \/ fields = [seedHash |-> short, seed |-> long, rowConfig |-> rowConfigStr]
          \/ fields = [seedHash |-> long, seed |-> short, rowConfig |-> rowConfigStr]
    /\ formData = NoFormData
    /\ validation = NoValidation
    /\ verificationResult = NoResult
    /\ ui = InitialUi
    /\ pc = "input"

\* handleFormSubmit lines 96-101: getFormData, then validateGameData
Normalize ==
    /\ pc = "input"
    /\ formData' = getFormData(fields)
    /\ validation' = validateGameData(getFormData(fields))
    /\ pc' = "normalized"
    /\ UNCHANGED <<isDebugMode, now, call, pinned, fields, verificationResult, ui>>
    /\ EnvUnchanged

\* verifyGame line 164 on a request that was accepted
VerifyAccepted ==
    /\ pc = "normalized"
    /\ validation.isValid
    /\ LET r == verifySeed(formData.seed, formData.seedHash)
       IN  call' = [op |-> "verifySeed", state |-> "returned", seed |-> formData.seed,
                    expectedHash |-> formData.seedHash,
                    ret |-> r.ret, caught |-> r.caught, thrown |-> r.thrown]
    /\ pc' = "verified"
    /\ UNCHANGED <<isDebugMode, now, pinned, fields, formData, validation,
                   verificationResult, ui>>
    /\ EnvUnchanged

NextNormalize == Normalize \/ VerifyAccepted

SpecNormalize == InitNormalize /\ [][NextNormalize]_vars

Normalized == pc \in {"normalized", "verified"}

Accepted == Normalized /\ validation.isValid

\* non-empty and made of the characters 0-9, a-f, A-F only
OnlyHexCharacters(str) ==
    /\ Len(str) > 0
    /\ \A i \in 1..Len(str) :
          str[i] \in Range(Digits) \cup {LowerLetters[k] : k \in 1..6} \cup {UpperLetters[k] : k \in 1..6}

\* non-empty, only hexadecimal characters, even length
EvenHexString(str) == OnlyHexCharacters(str) /\ Len(str) % 2 = 0

\* C5: every accepted request has a commitment and a seed that are non-empty, hexadecimal and
\* of even length, and verifySeed on an accepted request meets no decoding failure.
C5_AcceptedDecodes ==
    /\ Accepted => (EvenHexString(formData.seedHash) /\ EvenHexString(formData.seed))
    /\ (pc = "verified") => call.caught # OddLength

InAcceptedRange(rowConfig) ==
    /\ Len(rowConfig) > 0
    /\ \A k \in 1..Len(rowConfig) : rowConfig[k] >= 1 /\ rowConfig[k] <= 10

\* no character of the input other than surrounding blanks is missing from the request
NothingStripped ==
    /\ formData.seedHash = trim(fields.seedHash)
    /\ formData.seed = trim(fields.seed)

\* C10: a request is accepted exactly when the trimmed commitment and the trimmed seed are
\* non-empty and hexadecimal and the parsed row configuration is non-empty with every element
\* from 1 to 10; the strings that are validated are the inputs without their surrounding
\* blanks, nothing else removed.
C10_AcceptsIff ==
    Normalized =>
        /\ validation.isValid <=>
              /\ OnlyHexCharacters(trim(fields.seedHash))
              /\ OnlyHexCharacters(trim(fields.seed))
              /\ InAcceptedRange(parseRowConfig(trim(fields.rowConfig)))
        /\ NothingStripped

\* a request rejected only because of a blank or a separator inside the seed
C10_Witness ==
    /\ Normalized
    /\ ~validation.isValid
    /\ validation.errors = <<SeedNotHex>>
    /\ Len(fields.seed) = 3
    /\ IsHexChar(fields.seed[1])
    /\ ~IsHexChar(fields.seed[2])
    /\ IsHexChar(fields.seed[3])
    /\ formData.seed = fields.seed

\* the fields of the request that are wrong: hash, seed, round configuration
HashWrong == ~OnlyHexCharacters(trim(fields.seedHash))

SeedWrong == ~OnlyHexCharacters(trim(fields.seed))

RowConfigWrong == ~InAcceptedRange(parseRowConfig(trim(fields.rowConfig)))

WrongFields ==
    (IF HashWrong THEN 1 ELSE 0) + (IF SeedWrong THEN 1 ELSE 0)
        + (IF RowConfigWrong THEN 1 ELSE 0)

\* C12: validation returns one message for each field that is wrong, whichever the others
\* are: the error list has as many entries as there are wrong fields, a message about the
\* hash, the seed or the round configuration is in the list exactly when that field is
\* wrong, and isValid is true exactly when the list is empty.
C12_OneErrorPerField ==
    Normalized =>
        /\ Len(validation.errors) = WrongFields
        /\ HashWrong <=> (Range(validation.errors) \cap {HashRequired, HashNotHex} # {})
        /\ SeedWrong <=> (Range(validation.errors) \cap {SeedRequired, SeedNotHex} # {})
        /\ RowConfigWrong <=>
              (Range(validation.errors) \cap {RowConfigRequired, RowConfigOutOfRange} # {})
        /\ validation.isValid <=> (validation.errors = <<>>)

\* all three fields wrong, three messages in the order of the checks
C12_Witness ==
    /\ Normalized
    /\ validation.errors = <<HashRequired, SeedNotHex, RowConfigOutOfRange>>
    /\ ~validation.isValid

\* a round configuration of positive sizes, one of them above 10
AboveTen(rowConfig) ==
    /\ Len(rowConfig) > 0
    /\ \A k \in 1..Len(rowConfig) : rowConfig[k] >= 1
    /\ \E k \in 1..Len(rowConfig) : rowConfig[k] > 10

\* C14 as stated: a request with a valid hash, a valid seed and a round configuration of
\* positive sizes, one of them above 10, passes normalization.
C14_Original ==
    (Normalized /\ ~HashWrong /\ ~SeedWrong /\ AboveTen(formData.rowConfig)) =>
        validation.isValid

\* C14 amended: parseRowConfig keeps a size above 10, and validateGameData rejects the request
\* that holds one with the message about numbers between 1 and 10 (alone when hash and seed
\* are valid); no such request goes on to verification.
C14_UpperLimitEnforced ==
    /\ (Normalized /\ AboveTen(formData.rowConfig)) =>
          /\ ~validation.isValid
          /\ RowConfigOutOfRange \in Range(validation.errors)
          /\ (~HashWrong /\ ~SeedWrong) => validation.errors = <<RowConfigOutOfRange>>
    /\ (pc = "verified") => ~AboveTen(formData.rowConfig)

\* the request "0F", "a0", "11": only the size 11 is wrong
C14_Witness ==
    /\ Normalized
    /\ formData.rowConfig = <<11>>
    /\ formData.seedHash = <<"0", "F">>
    /\ formData.seed = <<"a", "0">>
    /\ validation.errors = <<RowConfigOutOfRange>>

(***************************************************************************)
(* SpecParse: parseRowConfig called directly on any text                   *)
(***************************************************************************)
\* two digits, a letter, the separator, a blank and a sign
ConfigAlphabet == {"1", "0", "x", ",", " ", "-"}

ConfigStrings == StringsUpTo(ConfigAlphabet, MaxConfigLen)

InitParse ==
    /\ binding = FirstDeclaration
    /\ salt = 0
    /\ cryptoJsLoaded = TRUE
    /\ keccakLoaded = TRUE
    /\ isDebugMode = FALSE
    /\ now = 0
    /\ pinned = NoCall
    /\ FormIdle
    /\ \E rowConfigStr \in ConfigStrings :
          call = [op |-> "parseRowConfig", state |-> "pending",
                  rowConfigStr |-> rowConfigStr, ret |-> <<>>]

ParseRowConfigCall ==
    /\ call.op = "parseRowConfig"
    /\ call.state = "pending"
    /\ call' = [call EXCEPT !.state = "returned", !.ret = parseRowConfig(call.rowConfigStr)]
    /\ UNCHANGED <<isDebugMode, now, pinned>>
    /\ EnvUnchanged
    /\ FormUnchanged

NextParse == ParseRowConfigCall

SpecParse == InitParse /\ [][NextParse]_vars

ParseReturned == call.op = "parseRowConfig" /\ call.state = "returned"

\* a decimal integer: one or more decimal digits and nothing else
IsDecimalInteger(token) ==
    /\ Len(token) > 0
    /\ \A i \in 1..Len(token) : token[i] \in Range(Digits)

\* the number a decimal integer denotes
RECURSIVE DecimalValue(_)
DecimalValue(token) ==
    IF token = <<>> THEN 0
    ELSE 10 * DecimalValue(SubSeq(token, 1, Len(token) - 1))
             + ((CHOOSE d \in 1..10 : Digits[d] = token[Len(token)]) - 1)

\* the pieces between the commas, without their surrounding blanks
TokensOf(str) == LET pieces == Split(str, ",") IN [k \in 1..Len(pieces) |-> trim(pieces[k])]

\* the numbers of the tokens that are decimal integers of 1 or more, in their order
IntegersAtLeastOne(tokens) ==
    LET kept == SelectSeq(tokens, LAMBDA token : IsDecimalInteger(token) /\ DecimalValue(token) >= 1)
    IN  [k \in 1..Len(kept) |-> DecimalValue(kept[k])]

\* C13: parseRowConfig returns, in their order, exactly the tokens that are decimal integers
\* of 1 or more; a token that is not an integer, or is below 1, is left out.
C13_KeepsExactlyIntegers ==
    ParseReturned => call.ret = IntegersAtLeastOne(TokensOf(call.rowConfigStr))

(***************************************************************************)
(* SpecResult: verifyGame and createVerificationResult called directly,    *)
(* at different times, with the debug panel open or closed                 *)
(***************************************************************************)
\* a seed of one byte and a seed of odd length
ResultSeeds == {<<"0", "0">>, <<"a">>}

\* a commitment no digest of the model is equal to
OtherHash == <<"1", "1">>

ResultConfigs == {<<3>>, <<1, 3>>}

InitResult ==
    /\ binding \in {FirstDeclaration, SecondDeclaration}
    /\ salt \in Salts
    /\ cryptoJsLoaded \in BOOLEAN
    /\ keccakLoaded \in BOOLEAN
    \* the member of the digest family matters only when both libraries are loaded
    /\ (cryptoJsLoaded /\ keccakLoaded) \/ salt = 0
    /\ isDebugMode = FALSE
    /\ now = 0
    /\ \E seed \in ResultSeeds : call = [op |-> "none", seed |-> seed]
    /\ pinned = NoCall
    /\ FormIdle

\* verifyGame on the seed of the behaviour, with the commitment that matches it or another one
VerifyGameCall ==
    /\ \E seedHash \in {keccak256Bytes(hexToBytes(call.seed).bytes), OtherHash},
          rowConfig \in ResultConfigs :
          \E gameData \in {[seedHash |-> seedHash, seed |-> call.seed,
                              rowConfig |-> rowConfig]} :
              call' = [op |-> "verifyGame", seed |-> call.seed, gameData |-> gameData,
                       ret |-> verifyGame(gameData)]
    /\ UNCHANGED <<isDebugMode, now, pinned>>
    /\ EnvUnchanged
    /\ FormUnchanged

\* createVerificationResult on a request with or without a row configuration
CreateVerificationResultCall ==
    /\ \E gameData \in {[seedHash |-> OtherHash, seed |-> call.seed, rowConfig |-> rowConfig] :
                              rowConfig \in ResultConfigs \cup {<<>>}}
                         \cup {[seedHash |-> OtherHash, seed |-> call.seed]},
          isValid \in BOOLEAN, deathTiles \in {<<>>, <<0, 2>>} :
          call' = [op |-> "createVerificationResult", seed |-> call.seed,
                   gameData |-> gameData, isValid |-> isValid, deathTiles |-> deathTiles,
                   ret |-> createVerificationResult(gameData, isValid, deathTiles)]
    /\ UNCHANGED <<isDebugMode, now, pinned>>
    /\ EnvUnchanged
    /\ FormUnchanged

\* keep the latest verifyGame call for comparison with the calls that follow
PinResult ==
    /\ call.op = "verifyGame"
    /\ pinned' = call
    /\ UNCHANGED <<isDebugMode, now, call>>
    /\ EnvUnchanged
    /\ FormUnchanged

NextResult ==
    VerifyGameCall \/ CreateVerificationResultCall \/ PinResult \/ ToggleDebugMode \/ Tick

SpecResult == InitResult /\ [][NextResult]_vars

GameVerified == call.op = "verifyGame"

ResultCreated == call.op \in {"verifyGame", "createVerificationResult"}

\* two verifyGame calls with the same seed and the same row configuration
SameGame ==
    /\ GameVerified
    /\ pinned.op = "verifyGame"
    /\ call.gameData.seed = pinned.gameData.seed
    /\ call.gameData.rowConfig = pinned.gameData.rowConfig

\* C15: the result of verifyGame carries the outcome of the commitment check and the indices
\* that generateDeathTiles derives from the seed and the row configuration, whatever that
\* outcome is: two calls for the same seed and row configuration carry the same indices also
\* when the check passed in one and failed in the other.
C15_ReconstructsRegardless ==
    /\ GameVerified =>
          /\ call.ret.verification.seedValid
                 = verifySeed(call.gameData.seed, call.gameData.seedHash).ret
          /\ call.ret.verification.deathTiles
                 = generateDeathTiles(call.gameData.seed, call.gameData.rowConfig)
    /\ SameGame => call.ret.verification.deathTiles = pinned.ret.verification.deathTiles

\* the check failed in the latest call and passed in the earlier one, and both carry one
\* index per round
C15_Witness ==
    /\ SameGame
    /\ ~call.ret.verification.seedValid
    /\ pinned.ret.verification.seedValid
    /\ Len(call.ret.verification.deathTiles) = 2
    /\ Len(call.gameData.rowConfig) = 2

\* the row configuration of a request, empty when the request has none
RowConfigOf(gameData) ==
    IF "rowConfig" \in DOMAIN gameData THEN gameData.rowConfig ELSE <<>>

RECURSIVE TotalOf(_)
TotalOf(rowConfig) ==
    IF rowConfig = <<>> THEN 0 ELSE Head(rowConfig) + TotalOf(Tail(rowConfig))

\* C16: in every result totalRows is the length of the row configuration and totalTiles the
\* sum of its elements, and both are 0 when the request has no row configuration.
C16_SummaryTotals ==
    ResultCreated =>
        /\ call.ret.summary.totalRows = Len(RowConfigOf(call.gameData))
        /\ call.ret.summary.totalTiles = TotalOf(RowConfigOf(call.gameData))
        /\ ("rowConfig" \notin DOMAIN call.gameData) =>
               (call.ret.summary.totalRows = 0 /\ call.ret.summary.totalTiles = 0)

\* a result for a request without a row configuration, after a result of verifyGame for
\* two rows of 1 and 3 tiles
C16_Witness ==
    /\ call.op = "createVerificationResult"
    /\ "rowConfig" \notin DOMAIN call.gameData
    /\ call.ret.summary = [totalRows |-> 0, totalTiles |-> 0]
    /\ pinned.op = "verifyGame"
    /\ pinned.ret.summary = [totalRows |-> 2, totalTiles |-> 4]

\* two verifyGame calls with the same commitment, seed and row configuration
SameRequest ==
    /\ GameVerified
    /\ pinned.op = "verifyGame"
    /\ call.gameData = pinned.gameData

\* a result without the time it was made at
WithoutTimestamp(result) == [result EXCEPT !.verification.timestamp = 0]

\* C18 as stated: two runs of verifyGame on the same commitment, seed and row configuration
\* produce identical result records.
C18_Original == SameRequest => call.ret = pinned.ret

\* C18 amended: two runs of verifyGame on the same commitment, seed and row configuration
\* produce result records that are identical in everything but verification.timestamp,
\* which is the time of the run.
C18_SameButTimestamp ==
    /\ SameRequest => WithoutTimestamp(call.ret) = WithoutTimestamp(pinned.ret)
    /\ GameVerified => call.ret.verification.timestamp <= now

\* the same request verified at two different times, the debug panel opened in between
C18_Witness ==
    /\ SameRequest
    /\ call.ret.verification.timestamp # pinned.ret.verification.timestamp
    /\ call.ret.verification.seedValid
    /\ Len(call.ret.verification.deathTiles) = 2
    /\ isDebugMode

(***************************************************************************)
(* SpecCodec: hexToBytes and bytesToHex called directly, each on any input *)
(* and on what the other returned                                          *)
(***************************************************************************)
\* bytes with a zero high nibble, a zero low nibble, two letters, the extremes
ByteValues == {0, 10, 160, 175, 255}

RECURSIVE BytesOfLen(_)
BytesOfLen(n) ==
    IF n = 0 THEN {<<>>}
    ELSE {Append(bytes, byte) : bytes \in BytesOfLen(n - 1), byte \in ByteValues}

CodecBytes == UNION {BytesOfLen(n) : n \in 0..MaxBytes}

InitCodec ==
    /\ binding = FirstDeclaration
    /\ salt = 0
    /\ cryptoJsLoaded = TRUE
    /\ keccakLoaded = TRUE
    /\ isDebugMode = FALSE
    /\ now = 0
    /\ pinned = NoCall
    /\ FormIdle
    /\ \/ \E hex \in SeedStrings :
             call = [op |-> "hexToBytes", state |-> "pending", hex |-> hex,
                     bytes |-> <<>>, error |-> NoError, again |-> <<>>]
       \/ \E bytes \in CodecBytes :
             call = [op |-> "bytesToHex", state |-> "pending", bytes |-> bytes,
                     hex |-> <<>>, error |-> NoError, again |-> <<>>]

\* hexToBytes on the input, or on the text bytesToHex returned
HexToBytesCall ==
    /\ \/ /\ call.op = "hexToBytes"
          /\ call.state = "pending"
          /\ \E decoded \in {hexToBytes(call.hex)} :
                call' = [call EXCEPT !.state = "returned", !.bytes = decoded.bytes,
                                     !.error = decoded.error]
       \/ /\ call.op = "bytesToHex"
          /\ call.state = "returned"
          /\ \E decoded \in {hexToBytes(call.hex)} :
                call' = [call EXCEPT !.state = "round trip", !.again = decoded.bytes,
                                     !.error = decoded.error]
    /\ UNCHANGED <<isDebugMode, now, pinned>>
    /\ EnvUnchanged
    /\ FormUnchanged

\* bytesToHex on the input, or on the bytes hexToBytes returned
BytesToHexCall ==
    /\ \/ /\ call.op = "bytesToHex"
          /\ call.state = "pending"
          /\ call' = [call EXCEPT !.state = "returned", !.hex = bytesToHex(call.bytes)]
       \/ /\ call.op = "hexToBytes"
          /\ call.state = "returned"
          /\ call.error = NoError
          /\ call' = [call EXCEPT !.state = "round trip", !.again = bytesToHex(call.bytes)]
    /\ UNCHANGED <<isDebugMode, now, pinned>>
    /\ EnvUnchanged
    /\ FormUnchanged

NextCodec == HexToBytesCall \/ BytesToHexCall

SpecCodec == InitCodec /\ [][NextCodec]_vars

Decoded == call.op = "hexToBytes" /\ call.state \in {"returned", "round trip"}

Encoded == call.op = "bytesToHex" /\ call.state \in {"returned", "round trip"}

\* a text of hexadecimal characters only, of even length (the empty text included)
EvenLengthHex(str) ==
    /\ Len(str) % 2 = 0
    /\ \A i \in 1..Len(str) :
          str[i] \in Range(Digits) \cup {LowerLetters[k] : k \in 1..6}
                     \cup {UpperLetters[k] : k \in 1..6}

\* the value of a hexadecimal character
NibbleOf(c) == (CHOOSE k \in 1..16 : HexDigitsLower[k] = ToLowerChar(c)) - 1

\* C19: hexToBytes decodes an even-length hexadecimal text without error, each pair of
\* characters to one byte with the most significant nibble first, and bytesToHex of the
\* result is the text in lower case; bytesToHex gives two characters per byte and
\* hexToBytes of the result is the byte sequence.
C19_RoundTrip ==
    /\ (Decoded /\ EvenLengthHex(call.hex)) =>
          /\ call.error = NoError
          /\ Len(call.bytes) * 2 = Len(call.hex)
          /\ \A k \in 1..Len(call.bytes) :
                call.bytes[k] = 16 * NibbleOf(call.hex[2 * k - 1]) + NibbleOf(call.hex[2 * k])
          /\ (call.state = "round trip") => call.again = toLowerCase(call.hex)
    /\ Encoded =>
          /\ Len(call.hex) = 2 * Len(call.bytes)
          /\ (call.state = "round trip") => (call.error = NoError /\ call.again = call.bytes)

\* "aF" decoded to the byte 175 and encoded back to "af"
C19_Witness ==
    /\ Decoded
    /\ call.state = "round trip"
    /\ call.hex = <<"a", "F">>
    /\ call.bytes = <<175>>
    /\ call.again = <<"a", "f">>

\* a text without blanks that is not a hexadecimal text of even length
MalformedForDecode(str) ==
    /\ \A i \in 1..Len(str) : ~IsWhitespace(str[i])
    /\ ~EvenLengthHex(str)

\* C20: hexToBytes fails for every malformed text, of odd length or with a character that is
\* not hexadecimal, and returns no bytes for it.
C20_MalformedFails ==
    (Decoded /\ MalformedForDecode(call.hex)) => (call.error # NoError /\ call.bytes = <<>>)

(***************************************************************************)
(* SpecServer: server.js, one request from its arrival to its response.    *)
(* Paths are POSIX paths; fs.readFile answers from a fixed file system.     *)
(***************************************************************************)
\* __dirname
Dirname == <<"/", "s", "r", "v", "/", "a", "p", "p">>

IndexHtml == <<"/", "i", "n", "d", "e", "x", ".", "h", "t", "m", "l">>

\* pieces.join(sep)
RECURSIVE JoinWith(_, _)
JoinWith(pieces, sep) ==
    IF pieces = <<>> THEN <<>>
    ELSE IF Len(pieces) = 1 THEN pieces[1]
    ELSE pieces[1] \o <<sep>> \o Once(Tail(pieces), LAMBDA rest : JoinWith(rest, sep))

\* path.normalize, normalizeString: empty and "." segments are skipped, ".." removes the
\* segment before it; with nothing to remove it is kept when allowAboveRoot and skipped
\* otherwise
RECURSIVE normalizeString(_, _, _)
normalizeString(segments, res, allowAboveRoot) ==
    IF segments = <<>> THEN res
    ELSE LET segment == Head(segments)
             next ==
                 IF segment = <<>> \/ segment = <<".">> THEN res
                 ELSE IF segment = <<".", ".">>
                 THEN IF res # <<>> /\ res[Len(res)] # <<".", ".">>
                      THEN SubSeq(res, 1, Len(res) - 1)
                      ELSE IF allowAboveRoot THEN Append(res, segment) ELSE res
                 ELSE Append(res, segment)
         IN  Once(<<Tail(segments), next>>,
                  LAMBDA pair : normalizeString(pair[1], pair[2], allowAboveRoot))

\* path.normalize(path)
normalize(path) ==
    IF path = <<>> THEN <<".">>
    ELSE LET isAbsolute        == path[1] = "/"
             trailingSeparator == path[Len(path)] = "/"
             Shape(body) ==
                 IF body = <<>>
                 THEN IF isAbsolute THEN <<"/">>
                      ELSE IF trailingSeparator THEN <<".", "/">> ELSE <<".">>
                 ELSE (IF isAbsolute THEN <<"/">> ELSE <<>>) \o body
                          \o (IF trailingSeparator THEN <<"/">> ELSE <<>>)
             Body(segments) ==
                 Once(normalizeString(segments, <<>>, ~isAbsolute),
                      LAMBDA kept : JoinWith(kept, "/"))
         IN  Once(Once(Split(path, "/"), Body), Shape)

\* path.join(first, second)
join(first, second) ==
    IF second = <<>> THEN normalize(first)
    ELSE Once(first \o <<"/">> \o second, normalize)

\* the check that never finds '..'
includesDotDot_never(filePath) == FALSE

\* filePath.includes('..')
includesDotDot(filePath) ==
    \E i \in 1..(Len(filePath) - 1) : filePath[i] = "." /\ filePath[i + 1] = "."

\* the file system: directories and files, two of the files outside __dirname
Directories ==
    { <<"/">>, <<"/", "s", "r", "v">>, Dirname, Dirname \o <<"/", "a", "a">> }

Files ==
    { Dirname \o IndexHtml,
      Dirname \o <<"/", "a">>,
      Dirname \o <<"/", "a", "a", "/", "a">>,
      <<"/", "s", "r", "v", "/", "a">>,
      <<"/", "a">> }

\* fs.readFile(filePath, callback): what the callback receives
readFile(filePath) ==
    LET trailing == Len(filePath) > 1 /\ filePath[Len(filePath)] = "/"
        name     == IF trailing THEN SubSeq(filePath, 1, Len(filePath) - 1) ELSE filePath
    IN  IF name \in Directories THEN "EISDIR"
        ELSE IF name \in Files THEN (IF trailing THEN "ENOTDIR" ELSE "content")
        ELSE IF \E k \in 1..(Len(name) - 1) :
                    name[k + 1] = "/" /\ SubSeq(name, 1, k) \in Files
        THEN "ENOTDIR"
        ELSE "ENOENT"

\* names a request target is made of, between its slashes
SegmentNames ==
    { <<>>, <<".">>, <<".", ".">>, <<"a">>, <<"a", "a">>, <<".", ".", "a">>,
      <<"a", "?", ".", ".">> }

RECURSIVE SegmentsOfLen(_)
SegmentsOfLen(n) ==
    IF n = 0 THEN {<<>>}
    ELSE {Append(segments, name) : segments \in SegmentsOfLen(n - 1), name \in SegmentNames}

\* req.url: origin-form targets, which start with a slash, and targets that start with a
\* letter, as the absolute-form targets do
Urls ==
    {prefix \o JoinWith(segments, "/") :
        prefix \in {<<"/">>, <<"a", "/">>},
        segments \in UNION {SegmentsOfLen(n) : n \in 0..MaxSegments}}

InitServer ==
    /\ binding = FirstDeclaration
    /\ salt = 0
    /\ cryptoJsLoaded = TRUE
    /\ keccakLoaded = TRUE
    /\ isDebugMode = FALSE
    /\ now = 0
    /\ pinned = NoCall
    /\ FormIdle
    /\ call = [op |-> "listen"]

\* line 93: a request arrives at the listening server
ReceiveRequest ==
    /\ call.op = "listen"
    /\ \E url \in Urls :
          call' = [op |-> "request", state |-> "received", url |-> url, filePath |-> <<>>,
                   reads |-> <<>>, responses |-> <<>>]
    /\ UNCHANGED <<isDebugMode, now, pinned>>
    /\ EnvUnchanged
    /\ FormUnchanged

\* lines 93-121: the handler up to res.end() of the 400 answer or to fs.readFile
HandleRequest ==
    /\ call.op = "request"
    /\ call.state = "received"
    /\ LET rooted   == IF call.url = <<"/">> THEN IndexHtml ELSE call.url
           Answer(filePath) ==
               IF includesDotDot(filePath)
               THEN [call EXCEPT !.state = "responded", !.filePath = filePath,
                                 !.responses = Append(@, 400)]
               ELSE [call EXCEPT !.state = "reading", !.filePath = filePath,
                                 !.reads = Append(@, join(Dirname, filePath))]
       IN  call' = Once(Once(Split(rooted, "?")[1], normalize), Answer)
    /\ UNCHANGED <<isDebugMode, now, pinned>>
    /\ EnvUnchanged
    /\ FormUnchanged

\* lines 41-87: the callback of fs.readFile
ReadFileCallback ==
    /\ call.op = "request"
    /\ call.state = "reading"
    /\ LET Status(outcome) ==
               IF outcome = "ENOENT" THEN 404 ELSE IF outcome = "content" THEN 200 ELSE 500
       IN  call' = [call EXCEPT !.state = "responded",
                                !.responses = Append(@, Once(readFile(call.reads[Len(call.reads)]),
                                                             Status))]
    /\ UNCHANGED <<isDebugMode, now, pinned>>
    /\ EnvUnchanged
    /\ FormUnchanged

NextServer == ReceiveRequest \/ HandleRequest \/ ReadFileCallback

\* the handler runs when the request has arrived and the callback when the read is over
SpecServer ==
    InitServer /\ [][NextServer]_vars /\ WF_vars(HandleRequest) /\ WF_vars(ReadFileCallback)

Responded == call.op = "request" /\ call.state = "responded"

\* a path in the directory of the server or below it
InsideDirname(path) ==
    /\ Len(path) >= Len(Dirname)
    /\ SubSeq(path, 1, Len(Dirname)) = Dirname
    /\ (Len(path) > Len(Dirname)) => path[Len(Dirname) + 1] = "/"
    /\ \A i \in 1..(Len(path) - 1) : ~(path[i] = "." /\ path[i + 1] = ".")

\* two dots in a row
HasTwoDots(path) == \E i \in 1..(Len(path) - 1) : path[i] = "." /\ path[i + 1] = "."

\* every path read is in the directory of the server, a normalized path with two dots is
\* answered with 400 without a read, and there is one response, when the request is over, and
\* none before
ServerSafe ==
    /\ \A k \in 1..Len(call.reads) : InsideDirname(call.reads[k])
    /\ Len(call.reads) <= 1
    /\ (call.state # "received" /\ HasTwoDots(call.filePath)) =>
          (call.responses = <<400>> /\ call.reads = <<>>)
    /\ (call.state = "responded") <=> (Len(call.responses) = 1)
    /\ Len(call.responses) <= 1
    /\ \A k \in 1..Len(call.responses) : call.responses[k] \in {200, 400, 404, 500}
    /\ (call.responses = <<400>>) => call.reads = <<>>

\* C22: the server reads no file outside its directory, answers a request whose normalized
\* path contains '..' with 400 and without a read, and every request gets exactly one
\* response, of status 200, 400, 404 or 500.
C22_ServesOwnDirectoryOnly ==
    /\ [](call.op = "request" => ServerSafe)
    /\ (call.op = "request") ~> Responded

\* a target that leads above the directory after normalization, answered with 400
C22_Witness ==
    /\ Responded
    /\ Len(call.filePath) > 3
    /\ SubSeq(call.filePath, 1, 3) = <<".", ".", "/">>
    /\ call.responses = <<400>>
    /\ call.reads = <<>>

(***************************************************************************)
(* Spec: the page of script.js, from the inputs to the displayed result    *)
(***************************************************************************)
\* script.js loadSampleData, lines 475-479
DebugSampleSeedHash ==
    <<"c","d","4","6","e","c","a","4","d","9","1","3","c","6","8","0",
      "f","4","d","c","b","c","5","f","2","6","2","6","8","3","f","d",
      "5","6","8","b","2","6","9","3","b","c","9","6","4","4","6","5",
      "2","7","f","2","f","2","2","d","a","5","b","a","e","2","b","1">>

DebugSampleSeed ==
    <<"5","c","2","4","d","d","0","9","c","7","b","7","4","7","9","4",
      "d","5","5","2","1","1","7","5","b","2","6","6","6","2","a","a",
      "0","3","0","2","7","8","b","4","f","8","c","5","2","a","d","c",
      "8","d","6","b","2","9","8","9","e","2","6","f","2","3","1","1",
      "3">>

DebugSampleFields ==
    [seedHash |-> DebugSampleSeedHash, seed |-> DebugSampleSeed,
     rowConfig |-> <<"6", ",", "5", ",", "4", ",", "3", ",", "2">>]

\* README.md lines 76-84
SampleFields == [seedHash |-> SampleSeedHash, seed |-> SampleSeed, rowConfig |-> SampleRowConfigStr]

\* what a user can type: the two samples, a seed with a maximal round digest, a one-byte seed
\* with its commitment in member 0 of the digest family, and a request whose seed "12g4" is
\* not hexadecimal
FormInputs ==
    { NoFields,
      SampleFields,
      DebugSampleFields,
      [seedHash |-> SampleSeedHash, seed |-> BoundarySeed,
       rowConfig |-> <<"6", ",", "5", ",", "4">>],
      [seedHash |-> KeccakDigest(<<0>>, 0), seed |-> <<"0", "0">>,
       rowConfig |-> <<"3", ",", "1">>],
      [seedHash |-> <<"0", "F">>, seed |-> <<"1", "2", "g", "4">>,
       rowConfig |-> <<"3", ",", "1">>] }

\* script.js init, lines 28-61: debug mode from the URL or localStorage, sample loaded with it
Init ==
    /\ binding \in {FirstDeclaration, SecondDeclaration}
    /\ salt \in Salts
    /\ cryptoJsLoaded \in BOOLEAN
    /\ keccakLoaded \in BOOLEAN
    \* the member of the digest family matters only when both libraries are loaded
    /\ (cryptoJsLoaded /\ keccakLoaded) \/ salt = 0
    /\ isDebugMode \in BOOLEAN
    /\ now = 0
    /\ call = NoCall
    /\ pinned = NoCall
    /\ fields = IF isDebugMode THEN DebugSampleFields ELSE NoFields
    /\ formData = NoFormData
    /\ validation = NoValidation
    /\ verificationResult = NoResult
    /\ ui = InitialUi
    /\ pc = "idle"

\* the user changes the inputs
EditFields ==
    /\ \E inputs \in FormInputs : fields' = inputs
    /\ UNCHANGED <<isDebugMode, now, call, pinned, formData, validation,
                   verificationResult, ui, pc>>
    /\ EnvUnchanged

\* handleFormSubmit whose catch block does not call showError: what the board area shows
\* stays
Submit_withoutShowError ==
    /\ pc = "idle"
    /\ LET data   == getFormData(fields)
           result == validateGameData(data)
       IN  /\ call' = [op |-> "handleFormSubmit", formData |-> data,
                       invoked |-> <<"getFormData", "validateGameData">>]
           /\ IF result.isValid
              THEN /\ formData' = data
                   /\ validation' = result
                   /\ ui' = [ui EXCEPT !.status = "checking", !.loading = TRUE]
                   /\ pc' = "delay"
              ELSE /\ formData' = NoFormData
                   /\ validation' = NoValidation
                   /\ ui' = [ui EXCEPT !.status = "invalid", !.loading = FALSE]
                   /\ pc' = "idle"
    /\ UNCHANGED <<isDebugMode, now, pinned, fields, verificationResult>>
    /\ EnvUnchanged

\* handleFormSubmit lines 87-107 and, when validation fails, 116-126: up to the await
Submit ==
    /\ pc = "idle"
    /\ LET data   == getFormData(fields)
           result == validateGameData(data)
       IN  /\ call' = [op |-> "handleFormSubmit", formData |-> data,
                       invoked |-> <<"getFormData", "validateGameData">>]
           /\ IF result.isValid
              THEN /\ formData' = data
                   /\ validation' = result
                   /\ ui' = [ui EXCEPT !.status = "checking", !.loading = TRUE]
                   /\ pc' = "delay"
              ELSE /\ formData' = NoFormData
                   /\ validation' = NoValidation
                   /\ ui' = [ui EXCEPT !.status = "invalid", !.loading = FALSE,
                                       !.error = result.errors, !.board = <<>>,
                                       !.boardShown = FALSE]
                   /\ pc' = "idle"
    /\ UNCHANGED <<isDebugMode, now, pinned, fields, verificationResult>>
    /\ EnvUnchanged

SeedMismatch == "Seed hash verification failed. The provided seed does not match the hash."

\* renderGameBoard lines 210-262: per row the death tile shown, -1 when there is none
BoardOf(result) ==
    [k \in 1..Len(result.gameData.rowConfig) |->
        IF k <= Len(result.verification.deathTiles)
        THEN result.verification.deathTiles[k] ELSE -1]

\* the rest of handleFormSubmit without its finally block: the loading state stays
Resume_withoutFinally ==
    /\ pc = "delay"
    /\ \E result \in {verifyGame(formData)} :
           /\ verificationResult' = result
           /\ ui' = IF result.verification.seedValid
                    THEN [ui EXCEPT !.status = "valid", !.error = <<>>,
                                    !.board = BoardOf(result), !.boardShown = TRUE,
                                    !.copyVisible = TRUE]
                    ELSE [ui EXCEPT !.status = "invalid",
                                    !.error = <<SeedMismatch>>, !.board = <<>>,
                                    !.boardShown = FALSE]
    /\ call' = [call EXCEPT !.invoked = @ \o <<"verifyGame", "verifySeed", "generateDeathTiles",
                                               "createVerificationResult", "displayResults">>]
    /\ formData' = NoFormData
    /\ validation' = NoValidation
    /\ pc' = "idle"
    /\ UNCHANGED <<isDebugMode, now, pinned, fields>>
    /\ EnvUnchanged

\* handleFormSubmit lines 109-113 and 124-126 after the timer: verifyGame, displayResults
Resume ==
    /\ pc = "delay"
    /\ \E result \in {verifyGame(formData)} :
           /\ verificationResult' = result
           /\ ui' = IF result.verification.seedValid
                    THEN [ui EXCEPT !.status = "valid", !.loading = FALSE, !.error = <<>>,
                                    !.board = BoardOf(result), !.boardShown = TRUE,
                                    !.copyVisible = TRUE]
                    ELSE [ui EXCEPT !.status = "invalid", !.loading = FALSE,
                                    !.error = <<SeedMismatch>>, !.board = <<>>,
                                    !.boardShown = FALSE]
    /\ call' = [call EXCEPT !.invoked = @ \o <<"verifyGame", "verifySeed", "generateDeathTiles",
                                               "createVerificationResult", "displayResults">>]
    /\ formData' = NoFormData
    /\ validation' = NoValidation
    /\ pc' = "idle"
    /\ UNCHANGED <<isDebugMode, now, pinned, fields>>
    /\ EnvUnchanged

Next == EditFields \/ Submit \/ Resume \/ ToggleDebugMode \/ Tick

Spec == Init /\ [][Next]_vars

\* line 108: the timer of 500 ms fires and the submission that waits for it goes on to its
\* end, which is the step Resume
TimerFires == pc = "delay" /\ pc' = "idle"

SpecTimer == Init /\ [][Next]_vars /\ WF_pc(TimerFires)

\* the request made from the README sample, and what validation says of it
SampleFormData == getFormData(SampleFields)

SampleValidation == validateGameData(SampleFormData)

\* the result on display is that of the README sample
SampleDisplayed ==
    /\ verificationResult.present
    /\ verificationResult.gameData = SampleFormData

\* C6: the README sample passes validation and its result shows a valid seed and 25 indices,
\* each at least 0 and below the size of its row.
C6_SampleVerifies ==
    /\ SampleValidation.isValid
    /\ SampleDisplayed =>
          /\ verificationResult.verification.seedValid
          /\ Len(verificationResult.verification.deathTiles) = 25
          /\ \A k \in 1..Len(verificationResult.verification.deathTiles) :
                /\ verificationResult.verification.deathTiles[k] >= 0
                /\ verificationResult.verification.deathTiles[k]
                       < verificationResult.gameData.rowConfig[k]

\* a request that normalization accepts: commitment and seed non-empty and hexadecimal, a
\* row configuration that is non-empty with every element from 1 to 10
RequestWellFormed(request) ==
    /\ OnlyHexCharacters(request.seedHash)
    /\ OnlyHexCharacters(request.seed)
    /\ InAcceptedRange(request.rowConfig)

\* functions of the hashing and reconstruction stage that the last submission has invoked
StageInvoked ==
    Range(call.invoked) \cap {"verifyGame", "verifySeed", "generateDeathTiles",
                              "createVerificationResult", "displayResults"}

\* C11: a submission whose request fails normalization ends at validation: it is back at rest
\* with the status invalid, it has invoked neither verifySeed nor generateDeathTiles nor
\* createVerificationResult; only a well-formed request waits for verification, and every
\* stored result belongs to a well-formed request.
C11_RejectedStopsAtValidation ==
    /\ (call.op = "handleFormSubmit" /\ ~RequestWellFormed(call.formData)) =>
          /\ pc = "idle"
          /\ StageInvoked = {}
          /\ ui.status = "invalid"
          /\ ui.error # <<>>
    /\ (pc = "delay") => RequestWellFormed(call.formData)
    /\ verificationResult.present => RequestWellFormed(verificationResult.gameData)

\* the seed "12g4" was submitted and rejected while the result of an earlier submission is
\* still stored
C11_Witness ==
    /\ call.op = "handleFormSubmit"
    /\ call.formData.seed = <<"1", "2", "g", "4">>
    /\ call.invoked = <<"getFormData", "validateGameData">>
    /\ ui.status = "invalid"
    /\ ui.error = <<SeedNotHex>>
    /\ pc = "idle"
    /\ verificationResult.present
    /\ verificationResult.gameData.seed = <<"0", "0">>

\* the last submission is over
SubmissionOver == call.op = "handleFormSubmit" /\ pc = "idle"

\* the verify button is enabled and the status is valid or invalid
Settled == ~ui.loading /\ ui.status \in {"valid", "invalid"}

\* C23: every submission ends, and at its end the loading state is cleared and the status is
\* valid or invalid; the status checking and the loading state only last while a submission
\* waits for its verification.
C23_SubmissionSettles ==
    /\ [](SubmissionOver => Settled)
    /\ []((ui.loading \/ ui.status = "checking") => pc = "delay")
    /\ (pc = "delay") ~> (SubmissionOver /\ Settled)

\* a submission that went through verification and ended with a seed that does not match
C23_Witness ==
    /\ SubmissionOver
    /\ "displayResults" \in Range(call.invoked)
    /\ ui.status = "invalid"
    /\ ui.error = <<SeedMismatch>>
    /\ ~ui.loading

\* C24: while no submission is in progress and the copy button is visible, the stored result is
\* that of the last submission and has seedValid = TRUE.
C24_CopyExportsValidResult ==
    (pc = "idle" /\ ui.copyVisible) =>
        /\ verificationResult.present
        /\ verificationResult.verification.seedValid
        /\ verificationResult.gameData = call.formData

\* the last submission passed validation and its result has seedValid = TRUE
Verified ==
    /\ RequestWellFormed(call.formData)
    /\ verificationResult.present
    /\ verificationResult.gameData = call.formData
    /\ verificationResult.verification.seedValid

\* C25: when a submission is over, the board is shown exactly if the submission passed
\* validation and verified with seedValid = TRUE, and then it is the board of that
\* submission, one row per element of its row configuration with the death tile of its
\* result; otherwise the board area holds the error placeholder and no board.
C25_BoardIffVerified ==
    SubmissionOver =>
        /\ ui.boardShown <=> Verified
        /\ ui.boardShown =>
              /\ ui.error = <<>>
              /\ Len(ui.board) = Len(call.formData.rowConfig)
              /\ \A k \in 1..Len(ui.board) :
                    k <= Len(verificationResult.verification.deathTiles) =>
                        ui.board[k] = verificationResult.verification.deathTiles[k]
        /\ ~ui.boardShown => (ui.board = <<>> /\ ui.error # <<>>)

\* a submission whose seed does not match, made after one that verified: the copy button
\* of the earlier one is there, its board is not
C25_Witness ==
    /\ SubmissionOver
    /\ ui.copyVisible
    /\ ~ui.boardShown
    /\ ui.board = <<>>
    /\ ui.error = <<SeedMismatch>>

====
